---- MODULE Spec2Model ----
(***************************************************************************)
(* A model of ReadContentAPI.py: the /read-file request handler, the PDF   *)
(* probe, the extractors with their temporary files and COM automation,    *)
(* the spreadsheet readers and the text normaliser clean_text.             *)
(*                                                                         *)
(* A string is a sequence of pieces: one-character strings and, for the    *)
(* fixed texts of the program (an error prefix, an exception message), one *)
(* opaque piece that holds no newline.  Three behaviour specifications     *)
(* share the module:                                                       *)
(*   Spec       one request through read_file, step by step                *)
(*   SpecClean  clean_text applied once and twice to every bounded string  *)
(*   SpecSheet  read_xlsx / read_xls applied to every bounded workbook     *)
(***************************************************************************)
EXTENDS Integers, Sequences, FiniteSets, TLC

VARIABLES
    \* ---- clean_text harness (SpecClean)
    raw_text,      \* the argument of clean_text
    cleaned,       \* clean_text(raw_text)
    recleaned,     \* clean_text(clean_text(raw_text))
    cpc,           \* "input", "once", "twice"
    \* ---- spreadsheet harness (SpecSheet)
    workbook,      \* the workbook on disk: sheets of rows of cell values
    xlsx_out,      \* what read_xlsx returned
    xls_out,       \* what read_xls returned
    spc,           \* per reader: "todo", "returned" or "raised"
    \* ---- external applications driven over COM (SpecSheet and Spec)
    com,           \* [dispatched, running, open, coinit]
    \* ---- one request through read_file (Spec)
    payload,       \* the body of the POST, as request.get_json() sees it
    file,          \* what the requested path holds on disk
    pc,            \* where the request is
    file_path,     \* data.get('filePath')
    calls,         \* the probe and the extractors entered so far, in order
    fault,         \* the function an exception was raised in, or "none"
    temps,         \* the temporary image files now on disk
    made,          \* how many tempfile.mktemp names were handed out
    pending,       \* image_paths still to be read, OCRed and unlinked
    todo,          \* rendered PDF pages still to be OCRed
    text,          \* the extractor's text (a list of strings)
    image_text,    \* the extractor's image_text accumulator
    raw,           \* what the extractor returned
    resp           \* the HTTP response

cleanVars == <<raw_text, cleaned, recleaned, cpc>>
sheetVars == <<workbook, xlsx_out, xls_out, spc>>
inputs == <<payload, file>>
ocrVars == <<temps, made, pending, todo>>
textVars == <<text, image_text>>
handlerVars ==
    <<payload, file, pc, file_path, calls, fault, temps, made, pending, todo,
      text, image_text, raw, resp>>

vars ==
    <<raw_text, cleaned, recleaned, cpc, workbook, xlsx_out, xls_out, spc, com,
      payload, file, pc, file_path, calls, fault, temps, made, pending, todo,
      text, image_text, raw, resp>>

(***************************************************************************)
(* The parts of the state a specification does not use stay as they are    *)
(* here.                                                                   *)
(***************************************************************************)
CleanIdle ==
    /\ raw_text = <<>>
    /\ cleaned = <<>>
    /\ recleaned = <<>>
    /\ cpc = "idle"

SheetIdle ==
    /\ workbook = <<>>
    /\ xlsx_out = <<>>
    /\ xls_out = <<>>
    /\ spc = [xlsx |-> "idle", xls |-> "idle"]

NoValue == [type |-> "absent", chars |-> <<>>]
NoResponse == [status |-> 0, field |-> "", body |-> <<>>]

HandlerIdle ==
    /\ payload = [kind |-> "null", filePath |-> NoValue]
    /\ file = [exists |-> FALSE, pages |-> <<>>, images |-> 0]
    /\ pc = "idle"
    /\ file_path = NoValue
    /\ calls = <<>>
    /\ fault = "none"
    /\ temps = {}
    /\ made = 0
    /\ pending = <<>>
    /\ todo = 0
    /\ text = <<>>
    /\ image_text = <<>>
    /\ raw = <<>>
    /\ resp = NoResponse

(***************************************************************************)
(* Characters and strings                                                  *)
(***************************************************************************)
NL == "\n"
SP == " "

\* the characters str.strip() removes, among those the model uses
IsSpace(c) == c \in {NL, SP}

RECURSIVE lstrip(_)
lstrip(s) == IF s # <<>> /\ IsSpace(Head(s)) THEN lstrip(Tail(s)) ELSE s

RECURSIVE rstrip(_)
rstrip(s) ==
    IF s # <<>> /\ IsSpace(s[Len(s)]) THEN rstrip(SubSeq(s, 1, Len(s) - 1)) ELSE s

\* str.strip()
strip(s) == rstrip(lstrip(s))

\* re.sub(r'\n(?!\n)', ' ', t): the pattern of clean_text without its lookbehind
re_sub_no_lookbehind(t) ==
    [i \in 1..Len(t) |->
        IF t[i] = NL /\ (i = Len(t) \/ t[i + 1] # NL) THEN SP ELSE t[i]]

\* re.sub(r'(?<!\n)\n(?!\n)', ' ', t): every match is one newline and the
\* lookarounds read the subject string, so the substitution is pointwise
re_sub(t) ==
    [i \in 1..Len(t) |->
        IF /\ t[i] = NL
           /\ (i = 1 \/ t[i - 1] # NL)
           /\ (i = Len(t) \/ t[i + 1] # NL)
        THEN SP
        ELSE t[i]]

\* a clean_text whose pattern lost the lookbehind
clean_text_no_lookbehind(s) == re_sub_no_lookbehind(strip(s))

\* a clean_text that forgets to strip
clean_text_no_strip(s) == re_sub(s)

clean_text(s) == re_sub(strip(s))

(***************************************************************************)
(* Pieces shared by the extractors                                         *)
(***************************************************************************)
\* "sep".join(list)
RECURSIVE Join(_, _)
Join(list, sep) ==
    IF list = <<>> THEN <<>>
    ELSE IF Len(list) = 1 THEN Head(list)
    ELSE Head(list) \o sep \o Join(Tail(list), sep)

\* str(e) of a caught exception: one opaque piece
ExcText == "<exception text>"

\* f"Error reading {fmt} file: {str(e)}"
ErrorPrefix(fmt) ==
    CASE fmt = "DOCX" -> "Error reading DOCX file: "
      [] fmt = "text" -> "Error reading text file: "
      [] fmt = "PDF"  -> "Error reading PDF file: "
      [] fmt = "XLSX" -> "Error reading XLSX file: "
      [] fmt = "PPTX" -> "Error reading PPTX file: "
      [] fmt = "DOC"  -> "Error reading DOC file: "
      [] fmt = "XLS"  -> "Error reading XLS file: "
      [] fmt = "PPT"  -> "Error reading PPT file: "

ErrorString(fmt) == <<ErrorPrefix(fmt), ExcText>>

(***************************************************************************)
(* Paths: str.lower, str.endswith and os.path.splitext                     *)
(***************************************************************************)
UpperChars ==
    <<"A", "B", "C", "D", "E", "F", "G", "H", "I", "J", "K", "L", "M",
      "N", "O", "P", "Q", "R", "S", "T", "U", "V", "W", "X", "Y", "Z">>

LowerChars ==
    <<"a", "b", "c", "d", "e", "f", "g", "h", "i", "j", "k", "l", "m",
      "n", "o", "p", "q", "r", "s", "t", "u", "v", "w", "x", "y", "z">>

lower_char(c) ==
    IF \E i \in DOMAIN UpperChars : UpperChars[i] = c
    THEN LowerChars[CHOOSE i \in DOMAIN UpperChars : UpperChars[i] = c]
    ELSE c

\* s.lower()
lower(s) == [i \in 1..Len(s) |-> lower_char(s[i])]

\* s.endswith(suffix)
endswith(s, suffix) ==
    /\ Len(s) >= Len(suffix)
    /\ SubSeq(s, Len(s) - Len(suffix) + 1, Len(s)) = suffix

\* the last index of s holding one of chars, 0 when there is none
rfind(s, chars) ==
    LET hits == {i \in 1..Len(s) : s[i] \in chars}
    IN  IF hits = {} THEN 0 ELSE CHOOSE i \in hits : \A j \in hits : j <= i

\* os.path.splitext(p)[1] on the platform of win32com: the suffix from the
\* last dot of the last path component, unless only dots come before it
splitext(p) ==
    LET sepIndex == rfind(p, {"\\", "/"})
        dotIndex == rfind(p, {"."})
    IN  IF /\ dotIndex > sepIndex
           /\ \E k \in (sepIndex + 1)..(dotIndex - 1) : p[k] # "."
        THEN SubSeq(p, dotIndex, Len(p))
        ELSE <<>>

ext_png == <<".", "p", "n", "g">>
ext_jpg == <<".", "j", "p", "g">>
ext_jpeg == <<".", "j", "p", "e", "g">>
ext_pdf == <<".", "p", "d", "f">>
ext_txt == <<".", "t", "x", "t">>
ext_docx == <<".", "d", "o", "c", "x">>
ext_xlsx == <<".", "x", "l", "s", "x">>
ext_pptx == <<".", "p", "p", "t", "x">>
ext_doc == <<".", "d", "o", "c">>
ext_xls == <<".", "x", "l", "s">>
ext_ppt == <<".", "p", "p", "t">>

SUPPORTED_IMAGE_EXTENSIONS == {ext_png, ext_jpg, ext_jpeg}

\* os.path.splitext(file_path)[1] with the .lower() forgotten
file_ext_case_sensitive(p) == splitext(p)

\* file_ext = os.path.splitext(file_path)[1].lower()
file_ext(p) == lower(splitext(p))

(***************************************************************************)
(* COM automation: pythoncom and win32com.client.Dispatch                  *)
(*   dispatched  how many application instances Dispatch has started       *)
(*   running     the instances that have not been told to Quit             *)
(*   open        the instances holding a document that was not closed      *)
(*   coinit      CoInitialize calls not yet matched by CoUninitialize      *)
(***************************************************************************)
ComIdle == [dispatched |-> 0, running |-> {}, open |-> {}, coinit |-> 0]

CoInitialize(c) == [c EXCEPT !.coinit = @ + 1]

CoUninitialize(c) == [c EXCEPT !.coinit = @ - 1]

\* Dispatch(progid) starting a new application instance
Dispatch(c) ==
    [c EXCEPT !.dispatched = @ + 1, !.running = @ \cup {c.dispatched + 1}]

\* app.Documents.Open(file_path) and its Workbooks / Presentations forms
Open(c, app) == [c EXCEPT !.open = @ \cup {app}]

\* doc.Close()
Close(c, app) == [c EXCEPT !.open = @ \ {app}]

\* app.Quit(): the application goes, and any document it held with it
Quit(c, app) == [c EXCEPT !.running = @ \ {app}, !.open = @ \ {app}]

(***************************************************************************)
(* Spreadsheets: cell values, read_xlsx and read_xls                       *)
(***************************************************************************)
None == [type |-> "NoneType", num |-> 0, str |-> <<>>]
IntCell(n) == [type |-> "int", num |-> n, str |-> <<>>]
BoolCell(b) == [type |-> "bool", num |-> IF b THEN 1 ELSE 0, str |-> <<>>]
StrCell(s) == [type |-> "str", num |-> 0, str |-> s]

\* Python's truth value of a cell value: `if cell.value:`
bool(v) ==
    CASE v.type = "NoneType" -> FALSE
      [] v.type = "int"  -> v.num # 0
      [] v.type = "bool" -> v.num # 0
      [] v.type = "str"  -> v.str # <<>>

Digits == <<"0", "1", "2", "3", "4", "5", "6", "7", "8", "9">>

RECURSIVE int_str(_)
int_str(n) ==
    IF n < 10 THEN <<Digits[n + 1]>>
    ELSE int_str(n \div 10) \o <<Digits[(n % 10) + 1]>>

\* str(cell.value)
str(v) ==
    CASE v.type = "NoneType" -> <<"N", "o", "n", "e">>
      [] v.type = "int"  -> int_str(v.num)
      [] v.type = "bool" -> IF v.num # 0 THEN <<"T", "r", "u", "e">>
                                         ELSE <<"F", "a", "l", "s", "e">>
      [] v.type = "str"  -> v.str

\* str(cell_value) in read_xls: Excel hands every number over as a float
xls_str(v) == IF v.type = "int" THEN int_str(v.num) \o <<".", "0">> ELSE str(v)

\* for cell in row: if cell.value: text.append(str(cell.value))
RECURSIVE xlsx_row(_)
xlsx_row(row) ==
    IF row = <<>> THEN <<>>
    ELSE (IF bool(Head(row)) THEN <<str(Head(row))>> ELSE <<>>) \o xlsx_row(Tail(row))

\* for row in sheet.rows
RECURSIVE xlsx_sheet(_)
xlsx_sheet(sheet) ==
    IF sheet = <<>> THEN <<>> ELSE xlsx_row(Head(sheet)) \o xlsx_sheet(Tail(sheet))

\* for sheet in workbook
RECURSIVE xlsx_workbook(_)
xlsx_workbook(wb) ==
    IF wb = <<>> THEN <<>> ELSE xlsx_sheet(Head(wb)) \o xlsx_workbook(Tail(wb))

\* read_xlsx(file_path); `loads` is whether load_workbook and the iteration
\* went through without an exception
read_xlsx(wb, loads) ==
    IF loads THEN Join(xlsx_workbook(wb), <<NL>>) ELSE ErrorString("XLSX")

\* for col in range(1, Columns.Count + 1): if cell_value: text.append(...)
RECURSIVE xls_row(_)
xls_row(row) ==
    IF row = <<>> THEN <<>>
    ELSE (IF bool(Head(row)) THEN <<xls_str(Head(row))>> ELSE <<>>) \o xls_row(Tail(row))

\* for row in range(1, Rows.Count + 1)
RECURSIVE xls_sheet(_)
xls_sheet(sheet) ==
    IF sheet = <<>> THEN <<>> ELSE xls_row(Head(sheet)) \o xls_sheet(Tail(sheet))

\* for sheet in workbook.Sheets (the used range taken to start at A1)
RECURSIVE xls_workbook(_)
xls_workbook(wb) ==
    IF wb = <<>> THEN <<>> ELSE xls_sheet(Head(wb)) \o xls_workbook(Tail(wb))

\* read_xls(file_path) from COM state c: every way the call can end, as
\* [ret |-> the returned string, com |-> the COM state left behind,
\*  raised |-> whether the except clause ran]
read_xls(wb, c) ==
    LET entered == CoInitialize(c)
        started == Dispatch(entered)
        excel   == started.dispatched
        opened  == Open(started, excel)
        failure(at) == [ret |-> ErrorString("XLS"), com |-> CoUninitialize(at),
                        raised |-> TRUE]
    IN  { failure(entered),      \* Dispatch('Excel.Application') raised
          failure(started),      \* excel.Workbooks.Open raised
          failure(opened),       \* reading a sheet or a cell raised
          [ret |-> Join(xls_workbook(wb), <<NL>>),
           com |-> CoUninitialize(Quit(Close(opened, excel), excel)),
           raised |-> FALSE] }

(***************************************************************************)
(* SpecSheet: both spreadsheet readers on every workbook of at most        *)
(* MaxCells cells                                                          *)
(***************************************************************************)
MaxCells == 4

CellValues ==
    { None, StrCell(<<>>), StrCell(<<"f", "o", "o">>), StrCell(<<"b", "a", "r">>),
      IntCell(0), BoolCell(FALSE) }

\* the rectangular sheets of r rows and c columns
SheetsOf(r, c) == [1..r -> [1..c -> CellValues]]

\* the sequences of sheets, empty one included, that hold at most n cells
RECURSIVE SheetLists(_)
SheetLists(n) ==
    {<<>>} \cup
    UNION { { <<s>> \o rest : s \in SheetsOf(rc[1], rc[2]),
                              rest \in SheetLists(n - rc[1] * rc[2]) }
            : rc \in {x \in (1..n) \X (1..n) : x[1] * x[2] <= n} }

\* a workbook has at least one sheet
Workbooks(n) == SheetLists(n) \ {<<>>}

InitSheet ==
    /\ workbook \in Workbooks(MaxCells)
    /\ xlsx_out = <<>>
    /\ xls_out = <<>>
    /\ spc = [xlsx |-> "todo", xls |-> "todo"]
    /\ com = ComIdle
    /\ CleanIdle
    /\ HandlerIdle

ReadXlsx ==
    /\ spc.xlsx = "todo"
    /\ \E loads \in BOOLEAN :
          /\ xlsx_out' = read_xlsx(workbook, loads)
          /\ spc' = [spc EXCEPT !.xlsx = IF loads THEN "returned" ELSE "raised"]
    /\ UNCHANGED <<workbook, xls_out, com, cleanVars, handlerVars>>

ReadXls ==
    /\ spc.xls = "todo"
    /\ \E o \in read_xls(workbook, com) :
          /\ xls_out' = o.ret
          /\ com' = o.com
          /\ spc' = [spc EXCEPT !.xls = IF o.raised THEN "raised" ELSE "returned"]
    /\ UNCHANGED <<workbook, xlsx_out, cleanVars, handlerVars>>

NextSheet == ReadXlsx \/ ReadXls

SpecSheet == InitSheet /\ [][NextSheet]_vars

\* every cell of the workbook, sheet by sheet, row by row, left to right
AllCells(wb) ==
    LET RECURSIVE flat(_)
        flat(lists) == IF lists = <<>> THEN <<>> ELSE Head(lists) \o flat(Tail(lists))
    IN  flat(flat(wb))

\* a cell is empty when it holds nothing or the empty string
IsEmptyCell(v) == v.type = "NoneType" \/ (v.type = "str" /\ v.str = <<>>)

\* the lines C9 expects: the string form of every non-empty cell, as
\* read_xls (legacy) or read_xlsx forms it
ExpectedLines(wb, legacy) ==
    LET cells == AllCells(wb)
        form(v) == IF legacy THEN xls_str(v) ELSE str(v)
        RECURSIVE keep(_)
        keep(cs) ==
            IF cs = <<>> THEN <<>>
            ELSE (IF IsEmptyCell(Head(cs)) THEN <<>> ELSE <<form(Head(cs))>>)
                 \o keep(Tail(cs))
    IN  Join(keep(cells), <<NL>>)

\* C9: read_xlsx and read_xls return the string forms of exactly the
\* non-empty cells, one per line, in sheet, row and column order: a cell
\* holding zero or false contributes a line too.
C9_ExactlyNonEmptyCells ==
    /\ spc.xlsx = "returned" => xlsx_out = ExpectedLines(workbook, FALSE)
    /\ spc.xls = "returned" => xls_out = ExpectedLines(workbook, TRUE)

(***************************************************************************)
(* SpecClean: clean_text on every string of at most MaxLen characters      *)
(***************************************************************************)
MaxLen == 5

Alphabet == {NL, SP, "a", "b"}

RECURSIVE StringsUpTo(_)
StringsUpTo(n) ==
    IF n = 0 THEN {<<>>}
    ELSE LET shorter == StringsUpTo(n - 1)
         IN  shorter \cup {Append(s, c) : s \in {t \in shorter : Len(t) = n - 1},
                                          c \in Alphabet}

InitClean ==
    /\ raw_text \in StringsUpTo(MaxLen)
    /\ cleaned = <<>>
    /\ recleaned = <<>>
    /\ cpc = "input"
    /\ SheetIdle
    /\ com = [dispatched |-> 0, running |-> {}, open |-> {}, coinit |-> 0]
    /\ HandlerIdle

Clean ==
    /\ cpc = "input"
    /\ cleaned' = clean_text(raw_text)
    /\ cpc' = "once"
    /\ UNCHANGED <<raw_text, recleaned, sheetVars, com, handlerVars>>

Reclean ==
    /\ cpc = "once"
    /\ recleaned' = clean_text(cleaned)
    /\ cpc' = "twice"
    /\ UNCHANGED <<raw_text, cleaned, sheetVars, com, handlerVars>>

NextClean == Clean \/ Reclean

SpecClean == InitClean /\ [][NextClean]_vars

\* C6: clean_text is idempotent: cleaning an already cleaned string changes
\* nothing, for every input over newline, space and ordinary characters.
C6_Idempotent == cpc = "twice" => recleaned = cleaned

\* C6 witness: an input with newlines and spaces that clean_text did change
\* has been cleaned twice.
C6_Witness ==
    /\ cpc = "twice"
    /\ cleaned # raw_text
    /\ \E i \in 1..Len(cleaned) : cleaned[i] = NL

\* The reference of C7, read left to right: a newline with no newline just
\* before it and none just after it becomes one space.
RECURSIVE RefReplace(_, _)
RefReplace(prev, s) ==
    IF s = <<>> THEN <<>>
    ELSE LET c == Head(s)
             alone == /\ c = NL
                      /\ prev # NL
                      /\ (Len(s) = 1 \/ s[2] # NL)
         IN  <<IF alone THEN SP ELSE c>> \o RefReplace(c, Tail(s))

RECURSIVE RefTrimLeft(_)
RefTrimLeft(s) ==
    IF s = <<>> THEN s
    ELSE IF Head(s) \in {NL, SP} THEN RefTrimLeft(Tail(s)) ELSE s

RECURSIVE Reverse(_)
Reverse(s) == IF s = <<>> THEN <<>> ELSE Append(Reverse(Tail(s)), Head(s))

Reference(s) ==
    LET replaced == RefReplace("", s)
    IN  Reverse(RefTrimLeft(Reverse(RefTrimLeft(replaced))))

\* C7: clean_text(s) is the reference result: isolated newlines replaced by a
\* space, then leading and trailing whitespace trimmed; "a\n\nb" is kept and
\* "a\nb" becomes "a b".
C7_MatchesReference ==
    cpc \in {"once", "twice"} =>
        /\ cleaned = Reference(raw_text)
        /\ (raw_text = <<"a", NL, NL, "b">> => cleaned = <<"a", NL, NL, "b">>)
        /\ (raw_text = <<"a", NL, "b">> => cleaned = <<"a", SP, "b">>)

\* C7 witness: an input with surrounding whitespace, an isolated newline and a
\* paragraph break has been cleaned.
C7_Witness ==
    /\ cpc = "once"
    /\ raw_text = <<NL, "a", NL, NL, "b">>
    /\ cleaned = <<"a", NL, NL, "b">>

(***************************************************************************)
(* Spec: one POST /read-file request                                       *)
(***************************************************************************)
MaxPages == 2
MaxImages == 2

\* the paths a request may name
Paths ==
    { <<"f">> \o e : e \in { ext_png, ext_jpg, ext_jpeg, ext_pdf, ext_txt, ext_docx,
                             ext_xlsx, ext_pptx, ext_doc, ext_xls, ext_ppt } }
    \cup { <<"f", ".", "P", "D", "F">>,
           <<"f", ".", "T", "x", "t">>,
           <<"f", ".", "J", "P", "G">>,
           <<"f", ".", "D", "o", "c", "X">>,
           <<"f", ".", "x", "y", "z">>,
           <<"f", ".", "p", "d", "f", "x">>,
           <<"f">>,
           <<".", "p", "d", "f">>,
           <<"d", ".", "t", "x", "t", "/", "f">> }

\* the JSON values the filePath field may hold
FieldValues ==
    { NoValue, [type |-> "null", chars |-> <<>>], [type |-> "array", chars |-> <<>>],
      [type |-> "string", chars |-> <<>>] }
    \cup { [type |-> "string", chars |-> p] : p \in Paths }

\* what request.get_json() returns: None (a null body), a list, or a dict
Payloads ==
    { [kind |-> "null", filePath |-> NoValue], [kind |-> "array", filePath |-> NoValue] }
    \cup { [kind |-> "object", filePath |-> v] : v \in FieldValues }

\* the extractable text of a PDF page
PageTexts == { <<>>, <<SP, NL>>, <<"a", NL>> }

RECURSIVE PageLists(_)
PageLists(n) ==
    IF n = 0 THEN {<<>>}
    ELSE LET shorter == PageLists(n - 1)
         IN  shorter \cup {Append(ps, t) : ps \in {q \in shorter : Len(q) = n - 1},
                                           t \in PageTexts}

\* what pytesseract.image_to_string may return
OcrTexts == { <<>>, <<"o", NL>> }

\* the text of a document, and the shape texts of a presentation
DocTexts == { <<>>, <<"a", NL, "b">> }
ShapeTexts == { <<>>, << <<"a">>, <<"b", NL>> >> }

\* the workbooks a request may meet
RequestWorkbooks ==
    { << << <<StrCell(<<"f", "o", "o">>), StrCell(<<>>)>>,
            <<StrCell(<<"b", "a", "r">>), None>> >> >>,
      << << <<IntCell(0)>> >> >> }

Init ==
    /\ payload \in Payloads
    /\ file \in [exists : BOOLEAN, pages : PageLists(MaxPages), images : 0..MaxImages]
    /\ pc = "read_file"
    /\ file_path = NoValue
    /\ calls = <<>>
    /\ fault = "none"
    /\ temps = {}
    /\ made = 0
    /\ pending = <<>>
    /\ todo = 0
    /\ text = <<>>
    /\ image_text = <<>>
    /\ raw = <<>>
    /\ resp = NoResponse
    /\ com = ComIdle
    /\ CleanIdle
    /\ SheetIdle

idleVars == <<cleanVars, sheetVars>>

\* jsonify({"error": message}), status
ErrorResponse(status, message) == [status |-> status, field |-> "error", body |-> message]

\* an exception that leaves read_file: the framework answers for the view
Unhandled == [status |-> 500, field |-> "", body |-> <<"Internal Server Error">>]

\* except Exception as e: "Error processing file: {str(e)}", 500
ProcessingError == ErrorResponse(500, <<"Error processing file: ", ExcText>>)

\* an exception reaches the except clause of read_file
Raise500 ==
    /\ resp' = ProcessingError
    /\ pc' = "done"

\* an extractor returns string r to read_file
Return(r) ==
    /\ raw' = r
    /\ pc' = "respond"

\* data = request.get_json(); file_path = data.get('filePath')
get_file_path ==
    /\ pc = "read_file"
    /\ IF payload.kind = "object"
       THEN /\ file_path' = IF payload.filePath.type \in {"absent", "null"}
                            THEN [type |-> "None", chars |-> <<>>]
                            ELSE payload.filePath
            /\ pc' = "validate"
            /\ UNCHANGED resp
       ELSE \* None and a list have no get: AttributeError, outside the try
            /\ resp' = Unhandled
            /\ pc' = "done"
            /\ UNCHANGED file_path
    /\ UNCHANGED <<inputs, calls, fault, ocrVars, textVars, raw, com, idleVars>>

\* Python's truth value of file_path: None and "" are false, a list with
\* elements is true
truthy(fp) ==
    CASE fp.type = "None"   -> FALSE
      [] fp.type = "string" -> fp.chars # <<>>
      [] fp.type = "array"  -> TRUE

\* `not file_path or not os.path.exists(file_path)` with the existence test
\* forgotten
validation_no_exists(fp, f) ==
    IF ~truthy(fp) THEN "not found"
    ELSE IF fp.type # "string" THEN "raises"
    ELSE "found"

\* `not file_path or not os.path.exists(file_path)`: os.path.exists raises
\* TypeError for a list
validation(fp, f) ==
    IF ~truthy(fp) THEN "not found"
    ELSE IF fp.type # "string" THEN "raises"
    ELSE IF ~f.exists THEN "not found"
    ELSE "found"

\* if not file_path or not os.path.exists(file_path): return ..., 400
validate ==
    /\ pc = "validate"
    /\ LET v == validation(file_path, file)
       IN  CASE v = "not found" ->
                    /\ resp' = ErrorResponse(400, <<"File not found">>)
                    /\ pc' = "done"
             [] v = "raises" ->
                    /\ resp' = Unhandled
                    /\ pc' = "done"
             [] v = "found" ->
                    /\ pc' = "dispatch"
                    /\ UNCHANGED resp
    /\ UNCHANGED <<inputs, file_path, calls, fault, ocrVars, textVars, raw, com, idleVars>>

\* the branch of the if / elif chain of read_file that file_ext selects; a
\* .pdf goes to the probe first
branch(ext) ==
    CASE ext \in SUPPORTED_IMAGE_EXTENSIONS -> "extract_text_with_ocr"
      [] ext = ext_pdf  -> "is_image_file"
      [] ext = ext_docx -> "read_docx"
      [] ext = ext_txt  -> "read_text_file"
      [] ext = ext_xlsx -> "read_xlsx"
      [] ext = ext_pptx -> "read_pptx"
      [] ext = ext_doc  -> "read_doc"
      [] ext = ext_xls  -> "read_xls"
      [] ext = ext_ppt  -> "read_ppt"
      [] OTHER -> "unsupported"

\* file_ext = ...; the if / elif chain; else: "Unsupported file type", 400
dispatch ==
    /\ pc = "dispatch"
    /\ LET to == branch(file_ext(file_path.chars))
       IN  IF to = "unsupported"
           THEN /\ resp' = ErrorResponse(400, <<"Unsupported file type">>)
                /\ pc' = "done"
           ELSE /\ pc' = to
                /\ UNCHANGED resp
    /\ UNCHANGED <<inputs, file_path, calls, fault, ocrVars, textVars, raw, com, idleVars>>

\* is_image_file's loop, looking at the first page only
probe_first_page(pages) == pages = <<>> \/ strip(Head(pages)) = <<>>

\* for page in doc: if page.get_text().strip(): return False; return True
RECURSIVE probe(_)
probe(pages) ==
    IF pages = <<>> THEN TRUE
    ELSE IF strip(Head(pages)) # <<>> THEN FALSE
    ELSE probe(Tail(pages))

\* is_image_file(file_path), called in the condition of the first branch;
\* True sends the request to OCR, False on to the elif for '.pdf'
is_image_file ==
    /\ pc = "is_image_file"
    /\ calls' = Append(calls, "is_image_file")
    /\ \E opens \in BOOLEAN :
          IF opens
          THEN /\ pc' = IF probe(file.pages) THEN "extract_text_with_ocr"
                                             ELSE "read_pdf_text"
               /\ UNCHANGED <<resp, fault>>
          ELSE \* fitz.open or get_text raised
               /\ fault' = "is_image_file"
               /\ Raise500
    /\ UNCHANGED <<inputs, file_path, ocrVars, textVars, raw, com, idleVars>>

\* extract_text_with_ocr(file_path) up to its loop: convert_from_path for a
\* PDF, the single imread and image_to_string for an image
extract_text_with_ocr ==
    /\ pc = "extract_text_with_ocr"
    /\ calls' = Append(calls, "extract_text_with_ocr")
    /\ LET name == lower(file_path.chars)
       IN  IF endswith(name, ext_pdf)
           THEN \E renders \in BOOLEAN :
                   IF renders
                   THEN /\ todo' = Len(file.pages)
                        /\ text' = << <<>> >>
                        /\ pc' = "ocr_pages"
                        /\ UNCHANGED <<resp, fault, raw>>
                   ELSE /\ fault' = "extract_text_with_ocr"
                        /\ Raise500
                        /\ UNCHANGED <<todo, text, raw>>
           ELSE IF \E e \in SUPPORTED_IMAGE_EXTENSIONS : endswith(name, e)
           THEN \E reads \in BOOLEAN, t \in OcrTexts :
                   IF reads
                   THEN /\ Return(strip(t))
                        /\ UNCHANGED <<resp, fault, todo, text>>
                   ELSE /\ fault' = "extract_text_with_ocr"
                        /\ Raise500
                        /\ UNCHANGED <<todo, text, raw>>
           ELSE /\ Return(strip(<<>>))
                /\ UNCHANGED <<resp, fault, todo, text>>
    /\ UNCHANGED <<inputs, file_path, temps, made, pending, image_text, com, idleVars>>

\* one pass of `for image in images:` of extract_text_with_ocr: mktemp,
\* save, imread, image_to_string, unlink; after the last page, return
ocr_pages ==
    /\ pc = "ocr_pages"
    /\ IF todo = 0
       THEN /\ Return(strip(Head(text)))
            /\ UNCHANGED <<resp, fault, temps, made, todo, text>>
       ELSE \E reads \in BOOLEAN, t \in OcrTexts :
               /\ made' = made + 1
               /\ IF reads
                  THEN /\ text' = << Head(text) \o t \o <<NL>> >>
                       /\ todo' = todo - 1
                       /\ UNCHANGED <<pc, resp, fault, temps, raw>>
                  ELSE \* the exception skips os.unlink(temp_path)
                       /\ temps' = temps \cup {made + 1}
                       /\ fault' = "extract_text_with_ocr"
                       /\ Raise500
                       /\ UNCHANGED <<todo, text, raw>>
    /\ UNCHANGED <<inputs, file_path, calls, pending, image_text, com, idleVars>>

\* an extractor's except clause: return f"Error reading {fmt} file: {str(e)}"
Caught(fn, fmt) ==
    /\ fault' = fn
    /\ Return(ErrorString(fmt))

\* read_text_file(file_path)
read_text_file ==
    /\ pc = "read_text_file"
    /\ calls' = Append(calls, "read_text_file")
    /\ \E reads \in BOOLEAN, t \in DocTexts :
          IF reads
          THEN Return(t) /\ UNCHANGED fault
          ELSE Caught("read_text_file", "text")
    /\ UNCHANGED <<inputs, file_path, ocrVars, textVars, resp, com, idleVars>>

\* read_pdf_text(file_path)
read_pdf_text ==
    /\ pc = "read_pdf_text"
    /\ calls' = Append(calls, "read_pdf_text")
    /\ \E opens \in BOOLEAN :
          IF opens
          THEN Return(Join(file.pages, <<NL>>)) /\ UNCHANGED fault
          ELSE Caught("read_pdf_text", "PDF")
    /\ UNCHANGED <<inputs, file_path, ocrVars, textVars, resp, com, idleVars>>

\* content = clean_text(read_xlsx(file_path)), up to the return of read_xlsx
call_read_xlsx ==
    /\ pc = "read_xlsx"
    /\ calls' = Append(calls, "read_xlsx")
    /\ \E wb \in RequestWorkbooks, loads \in BOOLEAN :
          /\ Return(read_xlsx(wb, loads))
          /\ fault' = IF loads THEN fault ELSE "read_xlsx"
    /\ UNCHANGED <<inputs, file_path, ocrVars, textVars, resp, com, idleVars>>

\* content = clean_text(read_xls(file_path)), up to the return of read_xls
call_read_xls ==
    /\ pc = "read_xls"
    /\ calls' = Append(calls, "read_xls")
    /\ \E wb \in RequestWorkbooks : \E o \in read_xls(wb, com) :
          /\ Return(o.ret)
          /\ com' = o.com
          /\ fault' = IF o.raised THEN "read_xls" ELSE fault
    /\ UNCHANGED <<inputs, file_path, ocrVars, textVars, resp, idleVars>>

\* how many temporary PNG files extract_images_from_docx may hand back: the
\* PNG and JPEG members of word/media, or fewer when an exception ends the
\* scan early (it is printed and the list so far returned)
extract_images_from_docx(f) == 0..f.images

\* the same for the picture shapes extract_images_from_pptx walks
extract_images_from_pptx(f) == 0..f.images

\* `written` temporary files appear on disk, the first `returned` of them
\* are the image_paths
Materialize(written, returned) ==
    /\ temps' = temps \cup ((made + 1)..(made + written))
    /\ pending' = [i \in 1..returned |-> made + i]
    /\ made' = made + written

\* one pass of `for image_path in image_paths:` that goes through: imread,
\* image_to_string, os.unlink
OcrPass(t) ==
    /\ image_text' = image_text \o t \o <<NL>>
    /\ temps' = temps \ {Head(pending)}
    /\ pending' = Tail(pending)

\* read_docx / read_pptx up to the image loop: the document's text, then
\* the embedded images written to temporary files
ModernOpen(fn, fmt, texts, counts) ==
    /\ pc = fn
    /\ calls' = Append(calls, fn)
    /\ \E opens \in BOOLEAN, t \in texts, k \in counts :
          IF opens
          THEN /\ text' = t
               /\ image_text' = <<>>
               /\ Materialize(k, k)
               /\ pc' = "images"
               /\ UNCHANGED <<fault, raw>>
          ELSE /\ Caught(fn, fmt)
               /\ UNCHANGED <<temps, made, pending, textVars>>
    /\ UNCHANGED <<inputs, file_path, todo, resp, com, idleVars>>

\* the image loop of read_docx / read_pptx and the return after it
ModernImages(fn, fmt) ==
    /\ pc = "images"
    /\ calls[Len(calls)] = fn
    /\ IF pending = <<>>
       THEN /\ Return(strip(Join(Append(text, image_text), <<NL>>)))
            /\ UNCHANGED <<fault, temps, pending, image_text>>
       ELSE \E reads \in BOOLEAN, t \in OcrTexts :
               IF reads
               THEN /\ OcrPass(t)
                    /\ UNCHANGED <<pc, fault, raw>>
               ELSE \* the exception skips os.unlink for this and every later image
                    /\ Caught(fn, fmt)
                    /\ UNCHANGED <<temps, pending, image_text>>
    /\ UNCHANGED <<inputs, file_path, calls, made, todo, text, resp, com, idleVars>>

read_docx ==
    ModernOpen("read_docx", "DOCX", {<<t>> : t \in DocTexts}, extract_images_from_docx(file))

read_docx_images == ModernImages("read_docx", "DOCX")

read_pptx ==
    ModernOpen("read_pptx", "PPTX", ShapeTexts, extract_images_from_pptx(file))

read_pptx_images == ModernImages("read_pptx", "PPTX")

\* extract_images_from_doc / _ppt called while `caller` is the application
\* the extractor drives: every way the call can end, as [written |-> the
\* temporary files SaveAsFile wrote, returned |-> how many of them are in the
\* returned list, com |-> the COM state left behind].  Dispatch hands back a
\* new application instance or the one already running.
ComImages(f, c, caller) ==
    LET entered == CoInitialize(c)
        fresh   == Dispatch(entered)
        handles == { [com |-> fresh, app |-> fresh.dispatched],
                     [com |-> entered, app |-> caller] }
        ends(h) ==
            LET opened == Open(h.com, h.app)
            IN  \* Documents.Open raised
                { [written |-> 0, returned |-> 0, com |-> CoUninitialize(h.com)] }
                \cup
                \* an exception in the loop: no Close, no Quit
                { [written |-> w, returned |-> r, com |-> CoUninitialize(opened)]
                  : w \in 0..f.images, r \in 0..f.images }
                \cup
                \* the loop went through: doc.Close(); word.Quit()
                { [written |-> f.images, returned |-> r,
                   com |-> CoUninitialize(Quit(Close(opened, h.app), h.app))]
                  : r \in 0..f.images }
    IN  \* Dispatch raised
        { [written |-> 0, returned |-> 0, com |-> CoUninitialize(entered)] }
        \cup UNION { {e \in ends(h) : e.returned <= e.written} : h \in handles }

extract_images_from_doc(f, c, caller) == ComImages(f, c, caller)

extract_images_from_ppt(f, c, caller) == ComImages(f, c, caller)

\* image_paths = extract_images_from_doc(file_path) in read_doc, and
\* extract_images_from_ppt(file_path) in read_ppt
extract_images(fn, f, c, caller) ==
    IF fn = "read_doc" THEN extract_images_from_doc(f, c, caller)
                       ELSE extract_images_from_ppt(f, c, caller)

\* read_doc / read_ppt up to the image loop: CoInitialize, Dispatch, Open,
\* the text, then the embedded images; the finally clause on the way out
LegacyOpen(fn, fmt, texts) ==
    /\ pc = fn
    /\ calls' = Append(calls, fn)
    /\ LET entered == CoInitialize(com)
           started == Dispatch(entered)
           app     == started.dispatched
           opened  == Open(started, app)
       IN  \/ \* Dispatch raised
              /\ com' = CoUninitialize(entered)
              /\ Caught(fn, fmt)
              /\ UNCHANGED <<temps, made, pending, textVars>>
           \/ \* Open, or reading the text, raised: the application stays
              /\ com' \in {CoUninitialize(started), CoUninitialize(opened)}
              /\ Caught(fn, fmt)
              /\ UNCHANGED <<temps, made, pending, textVars>>
           \/ \E t \in texts, o \in extract_images(fn, file, opened, app) :
                 /\ text' = t
                 /\ image_text' = <<>>
                 /\ Materialize(o.written, o.returned)
                 /\ com' = o.com
                 /\ pc' = "images"
                 /\ UNCHANGED <<fault, raw>>
    /\ UNCHANGED <<inputs, file_path, todo, resp, idleVars>>

\* the image loop of read_doc / read_ppt, then doc.Close(), word.Quit() and
\* the return; the finally clause on every way out.  The application the
\* extractor started is the first of the request.
LegacyImages(fn, fmt) ==
    /\ pc = "images"
    /\ calls[Len(calls)] = fn
    /\ LET app == 1
       IN  IF pending # <<>>
           THEN \E reads \in BOOLEAN, t \in OcrTexts :
                   IF reads
                   THEN /\ OcrPass(t)
                        /\ UNCHANGED <<pc, fault, raw, com>>
                   ELSE /\ Caught(fn, fmt)
                        /\ com' = CoUninitialize(com)
                        /\ UNCHANGED <<temps, pending, image_text>>
           ELSE IF app \in com.running /\ app \in com.open
           THEN /\ com' = CoUninitialize(Quit(Close(com, app), app))
                /\ Return(strip(Join(Append(text, image_text), <<NL>>)))
                /\ UNCHANGED <<fault, temps, pending, image_text>>
           ELSE \* the application is gone: doc.Close() raises
                /\ Caught(fn, fmt)
                /\ com' = CoUninitialize(com)
                /\ UNCHANGED <<temps, pending, image_text>>
    /\ UNCHANGED <<inputs, file_path, calls, made, todo, text, resp, idleVars>>

read_doc == LegacyOpen("read_doc", "DOC", {<<t>> : t \in DocTexts})

read_doc_images == LegacyImages("read_doc", "DOC")

read_ppt == LegacyOpen("read_ppt", "PPT", ShapeTexts)

read_ppt_images == LegacyImages("read_ppt", "PPT")

\* content = clean_text(...); return jsonify({"file_content": content}), 200
respond ==
    /\ pc = "respond"
    /\ resp' = [status |-> 200, field |-> "file_content", body |-> clean_text(raw)]
    /\ pc' = "done"
    /\ UNCHANGED <<inputs, file_path, calls, fault, ocrVars, textVars, raw, com, idleVars>>

Next ==
    \/ get_file_path
    \/ validate
    \/ dispatch
    \/ is_image_file
    \/ extract_text_with_ocr
    \/ ocr_pages
    \/ read_docx
    \/ read_docx_images
    \/ read_text_file
    \/ read_pdf_text
    \/ call_read_xlsx
    \/ read_pptx
    \/ read_pptx_images
    \/ read_doc
    \/ read_doc_images
    \/ call_read_xls
    \/ read_ppt
    \/ read_ppt_images
    \/ respond

Spec == Init /\ [][Next]_vars

(***************************************************************************)
(* The claims about a request                                              *)
(***************************************************************************)
Called(fn) == \E i \in 1..Len(calls) : calls[i] = fn

\* the request names, in a JSON object, a non-empty path that exists
NamesExistingPath ==
    /\ payload.kind = "object"
    /\ payload.filePath.type = "string"
    /\ payload.filePath.chars # <<>>
    /\ file.exists

\* the payload is a JSON object with no filePath field (or a null one), an
\* empty filePath, or a filePath that is not on disk
NamesNoFile ==
    /\ payload.kind = "object"
    /\ \/ payload.filePath.type \in {"absent", "null"}
       \/ /\ payload.filePath.type = "string"
          /\ (payload.filePath.chars = <<>> \/ ~file.exists)

\* C1: a request whose payload has no filePath field, an empty filePath or a
\* filePath that does not exist is answered 400 {"error": "File not found"},
\* and neither the probe nor any extractor is entered.
C1_FileNotFound ==
    NamesNoFile =>
        /\ calls = <<>>
        /\ pc = "done" => resp = [status |-> 400, field |-> "error",
                                  body |-> <<"File not found">>]

\* C1 witness: a request naming a .pdf path that is not on disk was answered.
C1_Witness ==
    /\ pc = "done"
    /\ payload.kind = "object"
    /\ payload.filePath = [type |-> "string", chars |-> <<"f", ".", "p", "d", "f">>]
    /\ ~file.exists
    /\ resp.status = 400

\* the extensions the service recognises, as C2 lists them
RecognisedExtensions ==
    { <<".", "p", "n", "g">>, <<".", "j", "p", "g">>, <<".", "j", "p", "e", "g">>,
      <<".", "p", "d", "f">>, <<".", "t", "x", "t">>, <<".", "d", "o", "c", "x">>,
      <<".", "x", "l", "s", "x">>, <<".", "p", "p", "t", "x">>, <<".", "d", "o", "c">>,
      <<".", "x", "l", "s">>, <<".", "p", "p", "t">> }

\* path p is a name followed by extension e, in any letter case
HasExtension(p, e) ==
    /\ Len(p) > Len(e)
    /\ lower(SubSeq(p, Len(p) - Len(e) + 1, Len(p))) = e
    /\ p[Len(p) - Len(e)] \notin {"/", "\\"}

Recognised(p) == \E e \in RecognisedExtensions : HasExtension(p, e)

UnsupportedResponse ==
    [status |-> 400, field |-> "error", body |-> <<"Unsupported file type">>]

\* C2: an existing path whose extension, compared case-insensitively, is not
\* a recognised one is answered 400 {"error": "Unsupported file type"} with
\* no probe or extractor entered; a path with a recognised extension in any
\* letter case is never answered that way.
C2_UnsupportedType ==
    NamesExistingPath =>
        IF Recognised(payload.filePath.chars)
        THEN resp # UnsupportedResponse
        ELSE /\ calls = <<>>
             /\ pc = "done" => resp = UnsupportedResponse

\* C2 witness: a request for an existing f.xyz was answered as unsupported.
C2_Witness ==
    /\ pc = "done"
    /\ NamesExistingPath
    /\ payload.filePath.chars = <<"f", ".", "x", "y", "z">>
    /\ resp = UnsupportedResponse

\* the three documented responses
Documented(r) ==
    \/ r.status = 200 /\ r.field = "file_content"
    \/ /\ r.status = 400
       /\ r.field = "error"
       /\ r.body \in {<<"File not found">>, <<"Unsupported file type">>}
    \/ /\ r.status = 500
       /\ r.field = "error"
       /\ Len(r.body) = 2
       /\ r.body[1] = "Error processing file: "

\* C3: nothing is raised past read_file: whatever the payload and whatever
\* the probe, the extractors and the OCR engine do, the request ends with one
\* of the three documented responses.
C3_NeverRaises == pc = "done" => Documented(resp)

Extractors ==
    { "extract_text_with_ocr", "read_docx", "read_text_file", "read_pdf_text",
      "read_xlsx", "read_pptx", "read_doc", "read_xls", "read_ppt" }

ErrorPrefixes ==
    { ErrorPrefix(fmt) : fmt \in {"DOCX", "text", "PDF", "XLSX", "PPTX", "DOC", "XLS", "PPT"} }

\* C4: in every file category, a failure inside the category's extractor is
\* caught there and returned as an error string naming the format, so the
\* request is answered 200 with that string as file_content.
C4_ExtractorFailureIs200 ==
    (pc = "done" /\ fault \in Extractors) =>
        /\ resp.status = 200
        /\ resp.field = "file_content"
        /\ resp.body # <<>>
        /\ resp.body[1] \in ErrorPrefixes

\* C5: when a request is over, no temporary image file made during it is
\* left on disk, whether OCR went through or failed.
C5_NoTempFilesLeft == pc = "done" => temps = {}

\* every page of the PDF has no text but whitespace
AllPagesEmpty(pages) ==
    \A i \in 1..Len(pages) : \A j \in 1..Len(pages[i]) : pages[i][j] \in {NL, SP}

\* the request names an existing path with the extension .pdf, in any case
NamesExistingPdf ==
    /\ NamesExistingPath
    /\ HasExtension(payload.filePath.chars, <<".", "p", "d", "f">>)

\* the extractor C8 routes this PDF to
PdfExtractor ==
    IF AllPagesEmpty(file.pages) THEN "extract_text_with_ocr" ELSE "read_pdf_text"

\* C8 as claimed: for every existing .pdf path the probe runs first and then
\* exactly one extractor: OCR exactly when every page's text is empty after
\* trimming, the text extractor exactly when some page has text.
C8_AsClaimed ==
    (NamesExistingPdf /\ pc = "done") => calls = <<"is_image_file", PdfExtractor>>

\* C8 as amended: the same whenever the probe returns; when the probe itself
\* raises, neither extractor runs and the answer is the 500 of read_file.
\* At no time has an extractor been entered before the probe.
C8_PdfRouting ==
    NamesExistingPdf =>
        /\ calls \in {<<>>, <<"is_image_file">>, <<"is_image_file", PdfExtractor>>}
        /\ (pc = "done" /\ fault # "is_image_file") =>
                calls = <<"is_image_file", PdfExtractor>>
        /\ (pc = "done" /\ fault = "is_image_file") =>
                /\ calls = <<"is_image_file">>
                /\ resp = ProcessingError

\* C8 witness: a PDF whose first page is empty and whose second page has
\* text went to the text extractor, after the probe.
C8_Witness ==
    /\ pc = "done"
    /\ NamesExistingPdf
    /\ Len(file.pages) = 2
    /\ file.pages[1] = <<>>
    /\ file.pages[2] = <<"a", NL>>
    /\ calls = <<"is_image_file", "read_pdf_text">>

\* C10: a legacy extractor drives one application instance and, when it
\* returns, has closed the document and quit the application, on success and
\* on failure alike.
C10_ApplicationTornDown ==
    (pc \in {"respond", "done"}
        /\ (Called("read_doc") \/ Called("read_xls") \/ Called("read_ppt"))) =>
        /\ com.dispatched <= 1
        /\ com.running = {}
        /\ com.open = {}

====
